---- MODULE Spec2Model ----
(***************************************************************************)
(* Model of twittersearchgo: SearchTwitterClient, its setters and the      *)
(* paging loop of Search / searchForMore (src/twittersearchgo.go).         *)
(* The earlier variant of Search (src/unnamed/part_000) is modelled at the *)
(* end, on the same variables.                                             *)
(*                                                                         *)
(* The transport collaborator (twittergo.Client.SendRequest and            *)
(* APIResponse.Parse) is the environment: every exchange is answered by a  *)
(* response drawn from a finite set.  A response whose Parse failed leaves *)
(* the SearchResults value untouched, so its Statuses() is empty, which is *)
(* what lines 160 and 262 of the source rely on.                           *)
(*                                                                         *)
(* uint64 is scaled to IdBits bits; all identifier arithmetic is modulo    *)
(* 2^IdBits.  Times are natural numbers, 0 being the zero time.Time.       *)
(* The logger only formats debug lines and is left out.                    *)
(***************************************************************************)
EXTENDS Integers, Sequences, FiniteSets, TLC

VARIABLES
    SinceID,      \* c.SinceID
    MaxID,        \* c.MaxID
    ResultType,   \* c.ResultType
    Language,     \* c.Language
    pc,           \* position of each Search invocation
    query,        \* the argument of each invocation
    result,       \* the local `result` of Search
    minID,        \* the local `minID` of Search
    response,     \* the last answer the transport gave the invocation
    ret,          \* what the invocation returned
    sent,         \* history: the requests the invocation handed to SendRequest
    pages,        \* history: the Statuses() of every answer processed
    lastRL,       \* history: the last rate-limit information an answer carried
    entry,        \* history: the client's fields when the invocation started
    now           \* the clock time.Now() reads

client == <<SinceID, MaxID, ResultType, Language>>
frame  == <<pc, query, result, minID, response, ret>>
ghost  == <<sent, pages, lastRL, entry>>
vars   == <<SinceID, MaxID, ResultType, Language, pc, query, result, minID,
            response, ret, sent, pages, lastRL, entry, now>>

(***************************************************************************)
(* Bounds and input sets                                                   *)
(***************************************************************************)
IdBits   == 2      \* width of the scaled uint64
MaxItems == 3      \* items one invocation receives in total

BatchSize == 100

Modulus   == 2 ^ IdBits
MaxUint64 == Modulus - 1
Uint64    == 0 .. MaxUint64

Procs == {1, 2}

TweetIds == {0, 1, 2, MaxUint64}

SeqsUpTo(S, n) == UNION {[1 .. k -> S] : k \in 0 .. n}

Queries      == {"", "golang"}
SinceInputs  == {0, 1}
MaxInputs    == {0, 2}
TypeInputs   == {"recent", "popular", "bogus"}
LangInputs   == {"", "de"}

RateLimits ==
    { [limit |-> 2, remaining |-> 1, reset |-> 1],
      [limit |-> 2, remaining |-> 0, reset |-> 2] }

NoHeader == [has |-> FALSE, limit |-> 0, remaining |-> 0, reset |-> 0]
Header(r) == [has |-> TRUE, limit |-> r.limit, remaining |-> r.remaining,
              reset |-> r.reset]
Headers == {NoHeader} \cup {Header(r) : r \in RateLimits}
NoRL == [limit |-> 0, remaining |-> 0, reset |-> 0]

TransportErrors == {"timeout", "refused"}
ParseErrors     == {"badjson"}

\* What one exchange can yield, over the item sequences P, headers H, rate-limit
\* errors R, SendRequest errors T and other Parse errors E.
ResponsesOver(P, H, R, T, E) ==
    {[kind |-> "senderr", items |-> <<>>, hdr |-> NoHeader, err |-> e, rl |-> NoRL]
        : e \in T}
    \cup
    {[kind |-> "parseerr", items |-> <<>>, hdr |-> h, err |-> e, rl |-> NoRL]
        : h \in H, e \in E}
    \cup
    {[kind |-> "ratelimit", items |-> <<>>, hdr |-> h, err |-> "RateLimitError", rl |-> r]
        : h \in H, r \in R}
    \cup
    {[kind |-> "ok", items |-> p, hdr |-> h, err |-> "nil", rl |-> NoRL]
        : p \in P, h \in H}

PagingResponses ==
    ResponsesOver(SeqsUpTo(TweetIds, 2), Headers, RateLimits, TransportErrors, ParseErrors)

ClientResponses ==
    ResponsesOver({<<>>, <<2>>, <<1>>},
                  {NoHeader, Header([limit |-> 2, remaining |-> 1, reset |-> 1])},
                  {[limit |-> 2, remaining |-> 0, reset |-> 2]},
                  {"timeout"}, {})

NoResponse == [kind |-> "none", items |-> <<>>, hdr |-> NoHeader, err |-> "nil", rl |-> NoRL]

(***************************************************************************)
(* Values and pure helpers                                                 *)
(***************************************************************************)
\* &SearchTweetsResponse{}
ZeroResult ==
    [Tweets |-> <<>>, HasRateLimit |-> FALSE, RateLimit |-> 0,
     RateLimitRemaining |-> 0, RateLimitReset |-> 0]

\* (*SearchTweetsResponse, error) as returned by Search
NoReturn       == [isNil |-> TRUE, val |-> ZeroResult, err |-> "none"]
ReturnOk(r)    == [isNil |-> FALSE, val |-> r, err |-> "nil"]
ReturnErr(e)   == [isNil |-> TRUE, val |-> ZeroResult, err |-> e]

DigitChar(d) ==
    CASE d = 0 -> "0" [] d = 1 -> "1" [] d = 2 -> "2" [] d = 3 -> "3" [] d = 4 -> "4"
      [] d = 5 -> "5" [] d = 6 -> "6" [] d = 7 -> "7" [] d = 8 -> "8" [] d = 9 -> "9"

RECURSIVE FormatUint(_)
FormatUint(n) ==
    IF n < 10 THEN DigitChar(n) ELSE FormatUint(n \div 10) \o DigitChar(n % 10)

Itoa(n) == FormatUint(n)

\* uint64 subtraction
Sub64(a, b) == (a - b + Modulus) % Modulus

\* url.Values{} and url.Values.Set
NoParams == [k \in {} |-> ""]
Set(params, key, value) ==
    [k \in DOMAIN params \cup {key} |-> IF k = key THEN value ELSE params[k]]

\* the loops over tweet.Id() of lines 171-175 and 204-208
RECURSIVE MinID_pageOnly(_, _)
MinID_pageOnly(min, tweets) ==
    IF tweets = <<>> THEN MaxUint64
    ELSE LET rest == MinID_pageOnly(min, Tail(tweets))
         IN  IF Head(tweets) < rest THEN Head(tweets) ELSE rest

RECURSIVE MinIDLoop(_, _)
MinIDLoop(min, tweets) ==
    IF tweets = <<>> THEN min
    ELSE MinIDLoop(IF Head(tweets) < min THEN Head(tweets) ELSE min, Tail(tweets))

\* searchResults.Statuses() after response.Parse(searchResults)
Statuses(resp) == IF resp.kind = "ok" THEN resp.items ELSE <<>>

\* err != nil after SendRequest, or a Parse error that is no RateLimitError
IsFatal_sendOnly(resp) == resp.kind = "senderr"

IsFatal(resp) == resp.kind \in {"senderr", "parseerr"}

\* if response.HasRateLimit() { ... }
WithHeaders(res, resp) ==
    IF resp.hdr.has
    THEN [res EXCEPT !.HasRateLimit = TRUE,
                     !.RateLimit = resp.hdr.limit,
                     !.RateLimitRemaining = resp.hdr.remaining,
                     !.RateLimitReset = resp.hdr.reset]
    ELSE res

\* if rateLimitErr, isRateLimitErr := err.(twittergo.RateLimitError) { ... }
WithRateLimitError_dropped(res, resp) == res

WithRateLimitError(res, resp) ==
    IF resp.kind = "ratelimit"
    THEN [res EXCEPT !.HasRateLimit = TRUE,
                     !.RateLimit = resp.rl.limit,
                     !.RateLimitRemaining = resp.rl.remaining,
                     !.RateLimitReset = resp.rl.reset]
    ELSE res

\* searchResults.Statuses() == nil || len(searchResults.Statuses()) == 0
NoStatuses_never(statuses) == FALSE

NoStatuses(statuses) == Len(statuses) = 0

\* if len(nextResponse.Tweets) == 0 { break }
WillStop_quota(next) ==
    \/ Len(next.Tweets) = 0
    \/ next.HasRateLimit /\ next.RateLimitRemaining = 0 /\ Len(next.Tweets) < BatchSize

WillStop(next) == Len(next.Tweets) = 0

\* result.Tweets = append(result.Tweets, nextResponse.Tweets...)
AppendTweets_front(tweets, more) == more \o tweets

AppendTweets(tweets, more) == tweets \o more

\* the (result, error) of searchForMore once the transport has answered
searchForMoreResult(resp) ==
    IF IsFatal(resp) THEN ReturnErr(resp.err)
    ELSE LET r0 == [ZeroResult EXCEPT !.Tweets = <<>>]
             r1 == WithRateLimitError(WithHeaders(r0, resp), resp)
         IN  ReturnOk(IF Len(Statuses(resp)) > 0
                      THEN [r1 EXCEPT !.Tweets = Statuses(resp)]
                      ELSE r1)

\* the rate-limit information an answer carries, if any
Carried(resp) ==
    IF resp.kind = "ratelimit" THEN <<Header(resp.rl)>>
    ELSE IF resp.kind \in {"ok", "parseerr"} /\ resp.hdr.has THEN <<resp.hdr>>
    ELSE <<>>

RECURSIVE Flatten(_)
Flatten(ps) == IF ps = <<>> THEN <<>> ELSE Head(ps) \o Flatten(Tail(ps))

Range(s) == {s[i] : i \in DOMAIN s}

Received(p) == Len(Flatten(pages[p]))

(***************************************************************************)
(* Initial state: a client as NewClientUsingAppAuth builds it              *)
(***************************************************************************)
Init ==
    /\ SinceID = 0
    /\ MaxID = 0
    /\ ResultType = ""
    /\ Language = ""
    /\ pc = [p \in Procs |-> "idle"]
    /\ query = [p \in Procs |-> ""]
    /\ result = [p \in Procs |-> ZeroResult]
    /\ minID = [p \in Procs |-> 0]
    /\ response = [p \in Procs |-> NoResponse]
    /\ ret = [p \in Procs |-> NoReturn]
    /\ sent = [p \in Procs |-> <<>>]
    /\ pages = [p \in Procs |-> <<>>]
    /\ lastRL = [p \in Procs |-> <<>>]
    /\ entry = [p \in Procs |-> <<0, 0, "", "">>]
    /\ now = 1

Quiescent == \A p \in Procs : pc[p] = "idle"

(***************************************************************************)
(* Setters                                                                 *)
(***************************************************************************)
SetSinceID(sinceID) ==
    /\ SinceID' = sinceID
    /\ UNCHANGED <<MaxID, ResultType, Language, frame, ghost, now>>

SetMaxID(maxID) ==
    /\ MaxID' = maxID
    /\ UNCHANGED <<SinceID, ResultType, Language, frame, ghost, now>>

SetResultType(resultType) ==
    /\ ResultType' = IF resultType = "recent" \/ resultType = "popular"
                     THEN resultType ELSE "mixed"
    /\ UNCHANGED <<SinceID, MaxID, Language, frame, ghost, now>>

SetLanguage(language) ==
    /\ Language' = IF language # "" THEN language ELSE "en"
    /\ UNCHANGED <<SinceID, MaxID, ResultType, frame, ghost, now>>

(***************************************************************************)
(* Search, up to the first SendRequest (lines 113-135)                     *)
(***************************************************************************)
FirstParams(q) ==
    LET p0 == Set(NoParams, "count", Itoa(BatchSize))
        p1 == IF Language # "" THEN Set(p0, "lang", Language) ELSE p0
        p2 == IF MaxID > 0 THEN Set(p1, "max_id", FormatUint(MaxID)) ELSE p1
        p3 == Set(p2, "q", q)
        p4 == Set(p3, "result_type", ResultType)
    IN  IF SinceID > 0 THEN Set(p4, "since_id", FormatUint(SinceID)) ELSE p4

Search(p, q) ==
    /\ pc[p] = "idle"
    /\ pc' = [pc EXCEPT ![p] = "first"]
    /\ query' = [query EXCEPT ![p] = q]
    /\ sent' = [sent EXCEPT ![p] = <<FirstParams(q)>>]
    /\ entry' = [entry EXCEPT ![p] = client]
    /\ UNCHANGED <<client, result, minID, response, ret, pages, lastRL, now>>

(***************************************************************************)
(* Search, from the answer to the first request to the loop (135-177)      *)
(***************************************************************************)
SearchFirstPage(p, resp) ==
    /\ pc[p] = "first"
    /\ Received(p) + Len(resp.items) <= MaxItems
    /\ response' = [response EXCEPT ![p] = resp]
    /\ pages' = [pages EXCEPT ![p] = Append(@, Statuses(resp))]
    /\ lastRL' = [lastRL EXCEPT ![p] = IF Carried(resp) # <<>> THEN Carried(resp) ELSE @]
    /\ IF IsFatal(resp)
       THEN /\ ret' = [ret EXCEPT ![p] = ReturnErr(resp.err)]
            /\ pc' = [pc EXCEPT ![p] = "done"]
            /\ UNCHANGED <<result, minID>>
       ELSE LET r == WithRateLimitError(WithHeaders(ZeroResult, resp), resp)
            IN  IF NoStatuses(Statuses(resp))
                THEN /\ result' = [result EXCEPT ![p] = r]
                     /\ ret' = [ret EXCEPT ![p] = ReturnOk(r)]
                     /\ pc' = [pc EXCEPT ![p] = "done"]
                     /\ UNCHANGED minID
                ELSE /\ result' = [result EXCEPT ![p] = [r EXCEPT !.Tweets = Statuses(resp)]]
                     /\ minID' = [minID EXCEPT ![p] = MinIDLoop(MaxUint64, Statuses(resp))]
                     /\ pc' = [pc EXCEPT ![p] = "loop"]
                     /\ UNCHANGED ret
    /\ UNCHANGED <<client, query, sent, entry, now>>

(***************************************************************************)
(* c.MaxID = minID - 1 (line 180)                                          *)
(***************************************************************************)
SearchSetMaxID(p) ==
    /\ pc[p] = "loop"
    /\ MaxID' = Sub64(minID[p], 1)
    /\ pc' = [pc EXCEPT ![p] = "more"]
    /\ UNCHANGED <<SinceID, ResultType, Language, query, result, minID, response, ret, ghost, now>>

(***************************************************************************)
(* searchForMore, up to SendRequest (lines 214-234)                        *)
(***************************************************************************)
MoreParams_noSince(q) ==
    LET p0 == Set(NoParams, "count", Itoa(BatchSize))
        p1 == Set(p0, "q", q)
        p2 == IF Language # "" THEN Set(p1, "lang", Language) ELSE p1
        p3 == Set(p2, "max_id", FormatUint(MaxID))
    IN  Set(p3, "result_type", ResultType)

MoreParams(q) ==
    LET p0 == Set(NoParams, "count", Itoa(BatchSize))
        p1 == Set(p0, "q", q)
        p2 == IF Language # "" THEN Set(p1, "lang", Language) ELSE p1
        p3 == Set(p2, "max_id", FormatUint(MaxID))
        p4 == Set(p3, "result_type", ResultType)
    IN  IF SinceID > 0 THEN Set(p4, "since_id", FormatUint(SinceID)) ELSE p4

searchForMore(p) ==
    /\ pc[p] = "more"
    /\ sent' = [sent EXCEPT ![p] = Append(@, MoreParams(query[p]))]
    /\ pc' = [pc EXCEPT ![p] = "next"]
    /\ UNCHANGED <<client, query, result, minID, response, ret, pages, lastRL, entry, now>>

(***************************************************************************)
(* The answer to a later request: the rest of searchForMore (234-266) and  *)
(* the rest of the loop body in Search (182-209)                           *)
(***************************************************************************)
SearchNextPage(p, resp) ==
    /\ pc[p] = "next"
    /\ Received(p) + Len(resp.items) <= MaxItems
    /\ response' = [response EXCEPT ![p] = resp]
    /\ pages' = [pages EXCEPT ![p] = Append(@, Statuses(resp))]
    /\ lastRL' = [lastRL EXCEPT ![p] = IF Carried(resp) # <<>> THEN Carried(resp) ELSE @]
    /\ LET more == searchForMoreResult(resp)
       IN  IF more.err # "nil"
           THEN /\ ret' = [ret EXCEPT ![p] = ReturnErr(more.err)]
                /\ pc' = [pc EXCEPT ![p] = "done"]
                /\ UNCHANGED <<result, minID>>
           ELSE LET next == more.val
                    r == [Tweets |-> AppendTweets(result[p].Tweets, next.Tweets),
                          HasRateLimit |-> next.HasRateLimit,
                          RateLimit |-> next.RateLimit,
                          RateLimitRemaining |-> next.RateLimitRemaining,
                          RateLimitReset |-> next.RateLimitReset]
                IN  /\ result' = [result EXCEPT ![p] = r]
                    /\ IF WillStop(next)
                       THEN /\ ret' = [ret EXCEPT ![p] = ReturnOk(r)]
                            /\ pc' = [pc EXCEPT ![p] = "done"]
                            /\ UNCHANGED minID
                       ELSE /\ minID' = [minID EXCEPT ![p] = MinIDLoop(@, next.Tweets)]
                            /\ pc' = [pc EXCEPT ![p] = "loop"]
                            /\ UNCHANGED ret
    /\ UNCHANGED <<client, query, sent, entry, now>>

(***************************************************************************)
(* The caller takes the returned value; the invocation's frame is gone     *)
(***************************************************************************)
Return(p) ==
    /\ pc[p] = "done"
    /\ pc' = [pc EXCEPT ![p] = "idle"]
    /\ query' = [query EXCEPT ![p] = ""]
    /\ result' = [result EXCEPT ![p] = ZeroResult]
    /\ minID' = [minID EXCEPT ![p] = 0]
    /\ response' = [response EXCEPT ![p] = NoResponse]
    /\ ret' = [ret EXCEPT ![p] = NoReturn]
    /\ sent' = [sent EXCEPT ![p] = <<>>]
    /\ pages' = [pages EXCEPT ![p] = <<>>]
    /\ lastRL' = [lastRL EXCEPT ![p] = <<>>]
    /\ entry' = [entry EXCEPT ![p] = <<0, 0, "", "">>]
    /\ UNCHANGED <<client, now>>

(***************************************************************************)
(* Specifications                                                          *)
(*   Spec       : the whole client, used by one caller at a time           *)
(*   SpecPaging : Search on a freshly built client, with the full range of *)
(*                pages                                                    *)
(***************************************************************************)
Next ==
    \/ \E v \in SinceInputs : Quiescent /\ SetSinceID(v)
    \/ \E v \in MaxInputs : Quiescent /\ SetMaxID(v)
    \/ \E s \in TypeInputs : Quiescent /\ SetResultType(s)
    \/ \E s \in LangInputs : Quiescent /\ SetLanguage(s)
    \/ \E p \in Procs, q \in Queries : Quiescent /\ Search(p, q)
    \/ \E p \in Procs, resp \in ClientResponses : SearchFirstPage(p, resp)
    \/ \E p \in Procs : SearchSetMaxID(p)
    \/ \E p \in Procs : searchForMore(p)
    \/ \E p \in Procs, resp \in ClientResponses : SearchNextPage(p, resp)
    \/ \E p \in Procs : Return(p)

Spec == Init /\ [][Next]_vars

NextPaging ==
    \/ \E p \in Procs : Quiescent /\ Search(p, "golang")
    \/ \E p \in Procs, resp \in PagingResponses : SearchFirstPage(p, resp)
    \/ \E p \in Procs : SearchSetMaxID(p)
    \/ \E p \in Procs : searchForMore(p)
    \/ \E p \in Procs, resp \in PagingResponses : SearchNextPage(p, resp)

SpecPaging == Init /\ [][NextPaging]_vars

\* Search called again and again on one client, no setter ever called
NextRepeat ==
    \/ \E p \in Procs : Quiescent /\ Search(p, "golang")
    \/ \E p \in Procs, resp \in ClientResponses : SearchFirstPage(p, resp)
    \/ \E p \in Procs : SearchSetMaxID(p)
    \/ \E p \in Procs : searchForMore(p)
    \/ \E p \in Procs, resp \in ClientResponses : SearchNextPage(p, resp)
    \/ \E p \in Procs : Return(p)

SpecRepeat == Init /\ [][NextRepeat]_vars

(***************************************************************************)
(* Vocabulary of the properties                                            *)
(***************************************************************************)
SetMin(S) == CHOOSE x \in S : \A y \in S : x <= y

\* the identifiers of all items of pages 1..n of invocation p
ItemsUpTo(p, n) == Range(Flatten(SubSeq(pages[p], 1, n)))

\* the rate-limit fields of a result, as a header
RateLimitOf(res) ==
    [has |-> res.HasRateLimit, limit |-> res.RateLimit,
     remaining |-> res.RateLimitRemaining, reset |-> res.RateLimitReset]

\* a non-empty page, shorter than the page size, whose own quota-remaining is 0
LowQuotaShortPage(resp) ==
    /\ resp.kind = "ok"
    /\ Len(resp.items) > 0
    /\ Len(resp.items) < BatchSize
    /\ resp.hdr.has
    /\ resp.hdr.remaining = 0

(***************************************************************************)
(* C1: within one invocation, the max_id of the request for page n+1 is    *)
(* (the minimum identifier over all items of pages 1..n) - 1, the running  *)
(* minimum and not the minimum of page n alone.  The subtraction is the    *)
(* unsigned one of the code.                                               *)
(***************************************************************************)
C1_RunningMinimum ==
    \A p \in Procs : \A n \in 1 .. Len(sent[p]) - 1 :
        /\ "max_id" \in DOMAIN sent[p][n + 1]
        /\ sent[p][n + 1]["max_id"] = FormatUint(Sub64(SetMin(ItemsUpTo(p, n)), 1))

\* a third request was sent after a second page whose minimum is above the first page's
C1_Witness ==
    \E p \in Procs :
        /\ Len(sent[p]) = 3
        /\ SetMin(Range(pages[p][2])) > SetMin(Range(pages[p][1]))
        /\ SetMin(Range(pages[p][1])) > 0

(***************************************************************************)
(* C2: a rate-limit error on page k ends Search without an error; the      *)
(* tweets returned are the items of pages 1..k-1, the rate-limit fields    *)
(* are those of the error, and no further request is sent.                 *)
(***************************************************************************)
C2_RateLimitStop ==
    \A p \in Procs :
        response[p].kind = "ratelimit" =>
            /\ pc[p] = "done"
            /\ ~ret[p].isNil
            /\ ret[p].err = "nil"
            /\ ret[p].val.Tweets = Flatten(SubSeq(pages[p], 1, Len(pages[p]) - 1))
            /\ RateLimitOf(ret[p].val) = Header(response[p].rl)
            /\ Len(sent[p]) = Len(pages[p])

\* page 3 refused after two pages with items, the error's fields unlike the headers'
C2_Witness ==
    \E p \in Procs :
        /\ response[p].kind = "ratelimit"
        /\ Len(pages[p]) = 3
        /\ Len(ret[p].val.Tweets) >= 2
        /\ response[p].hdr.has
        /\ response[p].hdr # Header(response[p].rl)

(***************************************************************************)
(* C3: a SendRequest error, or a Parse error that is no rate-limit error,  *)
(* on any page makes Search return that error and no result; the request   *)
(* is not sent again.                                                      *)
(***************************************************************************)
C3_TransportErrorAborts ==
    \A p \in Procs :
        response[p].kind \in {"senderr", "parseerr"} =>
            /\ pc[p] = "done"
            /\ ret[p].isNil
            /\ ret[p].err = response[p].err
            /\ Len(sent[p]) = Len(pages[p])

\* the second request failed after a first page with items
C3_Witness ==
    \E p \in Procs :
        /\ response[p].kind = "parseerr"
        /\ Len(pages[p]) = 2
        /\ pages[p][1] # <<>>
        /\ pc[p] = "done"

C5_NoWrappedMaxID ==
    \A p \in Procs :
        /\ \A n \in 1 .. Len(sent[p]) - 1 :
              SetMin(ItemsUpTo(p, n)) = 0 =>
                  sent[p][n + 1]["max_id"] # FormatUint(MaxUint64)
        /\ ( /\ pc[p] = "done"
             /\ Flatten(pages[p]) # <<>>
             /\ SetMin(Range(Flatten(pages[p]))) = 0 ) => ret[p].isNil

(***************************************************************************)
(* C6: the first request of every invocation carries no max_id, and every  *)
(* later request of the invocation carries one.                            *)
(***************************************************************************)
C6_FirstPageWithoutMaxID ==
    \A p \in Procs :
        /\ Len(sent[p]) >= 1 => "max_id" \notin DOMAIN sent[p][1]
        /\ \A i \in 2 .. Len(sent[p]) : "max_id" \in DOMAIN sent[p][i]

(***************************************************************************)
(* C7: when Search has returned, SinceID, MaxID, ResultType and Language   *)
(* have the values they had when it was called.                            *)
(***************************************************************************)
C7_ClientUnchanged ==
    \A p \in Procs : pc[p] = "done" => client = entry[p]

(***************************************************************************)
(* C8: the rate-limit state of a returned result is that of the last       *)
(* exchange that carried rate-limit information; an exchange without any   *)
(* does not erase it.                                                      *)
(***************************************************************************)
C8_MostRecentRateLimit ==
    \A p \in Procs :
        (pc[p] = "done" /\ ~ret[p].isNil) =>
            RateLimitOf(ret[p].val) = IF lastRL[p] = <<>> THEN NoHeader ELSE lastRL[p][1]

(***************************************************************************)
(* C9: Search with an empty query reports an error and sends no request.   *)
(***************************************************************************)
C9_EmptyQueryRejected ==
    \A p \in Procs :
        (pc[p] # "idle" /\ query[p] = "") =>
            /\ sent[p] = <<>>
            /\ pc[p] = "done"
            /\ ret[p].isNil
            /\ ret[p].err # "nil"

(***************************************************************************)
(* C10: a normal first page with zero items ends Search without an error,  *)
(* with zero tweets and exactly one request sent.                          *)
(***************************************************************************)
C10_EmptyFirstPage ==
    \A p \in Procs :
        (Len(pages[p]) = 1 /\ response[p].kind = "ok" /\ response[p].items = <<>>) =>
            /\ pc[p] = "done"
            /\ ~ret[p].isNil
            /\ ret[p].err = "nil"
            /\ ret[p].val.Tweets = <<>>
            /\ Len(sent[p]) = 1

\* the empty first page came with quota headers
C10_Witness ==
    \E p \in Procs :
        /\ Len(pages[p]) = 1
        /\ response[p].kind = "ok"
        /\ response[p].items = <<>>
        /\ response[p].hdr.has
        /\ pc[p] = "done"

(***************************************************************************)
(* A remote service that honours the window of a request: the items of a   *)
(* page are distinct, above since_id and at most max_id (README, table of  *)
(* parameters).  It holds the items Held and may answer with any of them.  *)
(***************************************************************************)
Held == {0, 2}

ParseUint(s) == CHOOSE n \in Uint64 : FormatUint(n) = s

\* exclusive lower fence; none when since_id is absent
WindowLow(req) == IF "since_id" \in DOMAIN req THEN ParseUint(req["since_id"]) ELSE -1

WindowHigh(req) == IF "max_id" \in DOMAIN req THEN ParseUint(req["max_id"]) ELSE MaxUint64

Distinct(seq) == \A i, j \in DOMAIN seq : seq[i] = seq[j] => i = j

\* resp answers the request invocation p sent last
Answers(p, resp) ==
    LET req == sent[p][Len(sent[p])]
    IN  /\ Distinct(resp.items)
        /\ \A id \in Range(resp.items) : id > WindowLow(req) /\ id <= WindowHigh(req)

ServiceResponses ==
    ResponsesOver({page \in SeqsUpTo(Held, 2) : Distinct(page)},
                  {NoHeader, Header([limit |-> 2, remaining |-> 1, reset |-> 1])},
                  {[limit |-> 2, remaining |-> 0, reset |-> 2]},
                  {"timeout"}, {})

NextService ==
    \/ \E v \in SinceInputs : Quiescent /\ SetSinceID(v)
    \/ \E p \in Procs : Quiescent /\ Search(p, "golang")
    \/ \E p \in Procs, resp \in ServiceResponses :
          pc[p] = "first" /\ Answers(p, resp) /\ SearchFirstPage(p, resp)
    \/ \E p \in Procs : SearchSetMaxID(p)
    \/ \E p \in Procs : searchForMore(p)
    \/ \E p \in Procs, resp \in ServiceResponses :
          pc[p] = "next" /\ Answers(p, resp) /\ SearchNextPage(p, resp)

SpecService == Init /\ [][NextService]_vars

(***************************************************************************)
(* C11: with a service that honours the window, a Search that ends         *)
(* without a transport error returns no identifier twice, and the          *)
(* identifiers it returns are exactly those of the pages received.         *)
(***************************************************************************)
C11_NoDuplicates ==
    \A p \in Procs :
        (pc[p] = "done" /\ ~ret[p].isNil) =>
            /\ Distinct(ret[p].val.Tweets)
            /\ Range(ret[p].val.Tweets) = ItemsUpTo(p, Len(pages[p]))

(***************************************************************************)
(* C12: the tweets of Search are the pages' items in arrival order, each   *)
(* page in its own order; nothing is reordered.                            *)
(***************************************************************************)
C12_ArrivalOrder ==
    \A p \in Procs :
        /\ pc[p] \in {"loop", "more", "next"} => result[p].Tweets = Flatten(pages[p])
        /\ (pc[p] = "done" /\ ~ret[p].isNil) => ret[p].val.Tweets = Flatten(pages[p])

\* returned after two pages with items, the first one in ascending order
C12_Witness ==
    \E p \in Procs :
        /\ pc[p] = "done"
        /\ ~ret[p].isNil
        /\ Len(pages[p]) = 3
        /\ Len(pages[p][1]) = 2
        /\ pages[p][1][1] < pages[p][1][2]
        /\ pages[p][2] # <<>>
        /\ pages[p][2][1] > pages[p][1][1]

(***************************************************************************)
(* C13: every request of an invocation carries the since_id, lang and      *)
(* result_type of its first request, and SinceID is what it was when       *)
(* Search was called.                                                      *)
(***************************************************************************)
Filters(req) == [k \in DOMAIN req \cap {"since_id", "lang", "result_type"} |-> req[k]]

C13_SameFilters ==
    \A p \in Procs :
        /\ \A i \in 2 .. Len(sent[p]) : Filters(sent[p][i]) = Filters(sent[p][1])
        /\ pc[p] # "idle" => SinceID = entry[p][1]

\* a later request on a client with all three filters set
C13_Witness ==
    \E p \in Procs :
        /\ Len(sent[p]) >= 2
        /\ SinceID = 1
        /\ Language = "de"
        /\ ResultType = "recent"
        /\ DOMAIN Filters(sent[p][2]) = {"since_id", "lang", "result_type"}

(***************************************************************************)
(* C15: Search has returned only after a failed exchange, a rate-limit     *)
(* error or a page with zero items, never right after a normal page that   *)
(* holds an item.                                                          *)
(***************************************************************************)
C15_ThreeWaysToEnd ==
    \A p \in Procs :
        /\ pc[p] = "done" =>
              \/ response[p].kind \in {"senderr", "parseerr", "ratelimit"}
              \/ response[p].kind = "ok" /\ response[p].items = <<>>
        /\ ret[p] # NoReturn => pc[p] = "done"

\* returned on an empty page that followed two pages with items
C15_Witness ==
    \E p \in Procs :
        /\ pc[p] = "done"
        /\ response[p].kind = "ok"
        /\ Len(pages[p]) = 3
        /\ pages[p][2] # <<>>

(***************************************************************************)
(* C16: every request carries a result_type that is recent, popular or     *)
(* mixed, whatever SetResultType was given and also when it was never      *)
(* called.                                                                 *)
(***************************************************************************)
C16_ValidResultType ==
    \A p \in Procs : \A i \in DOMAIN sent[p] :
        sent[p][i]["result_type"] \in {"recent", "popular", "mixed"}

(***************************************************************************)
(* Two callers in Search on the same client at once.  c.MaxID is written   *)
(* (line 180) and read (line 222) without synchronisation; the steps are   *)
(* interleaved here, which yields a subset of what the unsynchronised      *)
(* accesses may produce.                                                   *)
(***************************************************************************)
ConcurrentResponses == ResponsesOver({<<>>, <<1>>, <<2>>}, {NoHeader}, {}, {}, {})

NextConcurrent ==
    \/ \E p \in Procs : Search(p, "golang")
    \/ \E p \in Procs, resp \in ConcurrentResponses : SearchFirstPage(p, resp)
    \/ \E p \in Procs : SearchSetMaxID(p)
    \/ \E p \in Procs : searchForMore(p)
    \/ \E p \in Procs, resp \in ConcurrentResponses : SearchNextPage(p, resp)

SpecConcurrent == Init /\ [][NextConcurrent]_vars

(***************************************************************************)
(* C14: with two invocations running at once, the request an invocation    *)
(* has out for a next page carries max_id = (its own running minimum) - 1, *)
(* never a value the other invocation wrote.                               *)
(***************************************************************************)
C14_OwnCursor ==
    \A p \in Procs :
        pc[p] = "next" =>
            sent[p][Len(sent[p])]["max_id"] =
                FormatUint(Sub64(SetMin(Range(Flatten(pages[p]))), 1))

(***************************************************************************)
(* The earlier variant of the client (src/unnamed/part_000): Search and    *)
(* SearchTillMaxID.  Its result holds Tweets and RateLimitReset only, the  *)
(* cursor is passed as an argument, and the loop reads the clock.          *)
(***************************************************************************)
MaxClock == 3

EarlierResult(tweets, reset) == [Tweets |-> tweets, RateLimitReset |-> reset]

EarlierOk(r)  == [isNil |-> FALSE, val |-> r, err |-> "nil"]
EarlierNil(e) == [isNil |-> TRUE, val |-> EarlierResult(<<>>, 0), err |-> e]

EarlierResponses ==
    ResponsesOver({<<>>, <<2>>, <<1>>}, Headers, RateLimits, {"timeout"}, {"badjson"})

\* time.Now().Before(t)
Before(t, u) == t < u

Tick ==
    /\ now < MaxClock
    /\ now' = now + 1
    /\ UNCHANGED <<client, frame, ghost>>

\* the query string of Search (lines 75-83)
EarlierParams(q) ==
    LET p0 == Set(NoParams, "q", q)
        p1 == Set(p0, "count", "100")
        p2 == IF SinceID > 0 THEN Set(p1, "since_id", FormatUint(SinceID)) ELSE p1
    IN  IF Language # "" THEN Set(p2, "lang", Language) ELSE p2

\* the query string of SearchTillMaxID (lines 148-156)
TillParams(q, maxID) ==
    LET p0 == Set(NoParams, "q", q)
        p1 == Set(p0, "count", "100")
        p2 == Set(p1, "max_id", FormatUint(maxID))
        p3 == IF SinceID > 0 THEN Set(p2, "since_id", FormatUint(SinceID)) ELSE p2
    IN  IF Language # "" THEN Set(p3, "lang", Language) ELSE p3

\* Search up to SendRequest (lines 73-90)
EarlierSearch(p, q) ==
    /\ pc[p] = "idle"
    /\ pc' = [pc EXCEPT ![p] = "e_first"]
    /\ query' = [query EXCEPT ![p] = q]
    /\ sent' = [sent EXCEPT ![p] = <<EarlierParams(q)>>]
    /\ entry' = [entry EXCEPT ![p] = client]
    /\ UNCHANGED <<client, result, minID, response, ret, pages, lastRL, now>>

\* Search from the first answer to the loop (lines 90-115)
EarlierSearchFirstPage(p, resp) ==
    /\ pc[p] = "e_first"
    /\ Received(p) + Len(resp.items) <= MaxItems
    /\ response' = [response EXCEPT ![p] = resp]
    /\ pages' = [pages EXCEPT ![p] = Append(@, Statuses(resp))]
    /\ lastRL' = [lastRL EXCEPT ![p] = IF Carried(resp) # <<>> THEN Carried(resp) ELSE @]
    /\ IF resp.kind \in {"senderr", "parseerr"}
       THEN /\ ret' = [ret EXCEPT ![p] = EarlierNil(resp.err)]
            /\ pc' = [pc EXCEPT ![p] = "done"]
            /\ UNCHANGED <<result, minID>>
       ELSE IF resp.kind = "ratelimit"
       THEN /\ ret' = [ret EXCEPT ![p] = EarlierOk(EarlierResult(<<>>, resp.rl.reset))]
            /\ pc' = [pc EXCEPT ![p] = "done"]
            /\ UNCHANGED <<result, minID>>
       ELSE IF Len(Statuses(resp)) = 0
       THEN /\ ret' = [ret EXCEPT ![p] = EarlierNil("nil")]
            /\ pc' = [pc EXCEPT ![p] = "done"]
            /\ UNCHANGED <<result, minID>>
       ELSE /\ result' = [result EXCEPT ![p] = EarlierResult(Statuses(resp), 0)]
            /\ minID' = [minID EXCEPT ![p] = MinIDLoop(MaxUint64, Statuses(resp))]
            /\ pc' = [pc EXCEPT ![p] = "e_more"]
            /\ UNCHANGED ret
    /\ UNCHANGED <<client, query, sent, entry, now>>

\* c.SearchTillMaxID(q, minID-1) up to SendRequest (lines 118, 146-163)
SearchTillMaxID(p) ==
    /\ pc[p] = "e_more"
    /\ sent' = [sent EXCEPT ![p] = Append(@, TillParams(query[p], Sub64(minID[p], 1)))]
    /\ pc' = [pc EXCEPT ![p] = "e_next"]
    /\ UNCHANGED <<client, query, result, minID, response, ret, pages, lastRL, entry, now>>

\* the (result, error) of SearchTillMaxID once the transport has answered (163-180)
SearchTillMaxIDResult(resp) ==
    IF resp.kind = "senderr" THEN EarlierNil(resp.err)
    ELSE IF resp.kind = "ratelimit" THEN EarlierOk(EarlierResult(<<>>, resp.rl.reset))
    ELSE IF resp.kind = "parseerr" THEN EarlierNil(resp.err)
    ELSE EarlierOk(EarlierResult(Statuses(resp), 0))

\* the rest of the loop body of Search (lines 119-142)
EarlierSearchNextPage(p, resp) ==
    /\ pc[p] = "e_next"
    /\ Received(p) + Len(resp.items) <= MaxItems
    /\ response' = [response EXCEPT ![p] = resp]
    /\ pages' = [pages EXCEPT ![p] = Append(@, Statuses(resp))]
    /\ lastRL' = [lastRL EXCEPT ![p] = IF Carried(resp) # <<>> THEN Carried(resp) ELSE @]
    /\ LET more == SearchTillMaxIDResult(resp)
       IN  IF more.err # "nil"
           THEN /\ ret' = [ret EXCEPT ![p] = EarlierNil(more.err)]
                /\ pc' = [pc EXCEPT ![p] = "done"]
                /\ UNCHANGED <<result, minID>>
           ELSE IF Len(more.val.Tweets) = 0
           THEN /\ ret' = [ret EXCEPT ![p] = EarlierOk(EarlierResult(result[p].Tweets, 0))]
                /\ pc' = [pc EXCEPT ![p] = "done"]
                /\ UNCHANGED <<result, minID>>
           ELSE LET tweets == result[p].Tweets \o more.val.Tweets
                IN  /\ result' = [result EXCEPT ![p] = EarlierResult(tweets, 0)]
                    /\ IF Before(now, more.val.RateLimitReset)
                       THEN /\ ret' = [ret EXCEPT ![p] =
                                   EarlierOk(EarlierResult(tweets, more.val.RateLimitReset))]
                            /\ pc' = [pc EXCEPT ![p] = "done"]
                            /\ UNCHANGED minID
                       ELSE /\ minID' = [minID EXCEPT ![p] = MinIDLoop(@, more.val.Tweets)]
                            /\ pc' = [pc EXCEPT ![p] = "e_more"]
                            /\ UNCHANGED ret
    /\ UNCHANGED <<client, query, sent, entry, now>>

NextEarlier ==
    \/ \E p \in Procs : Quiescent /\ EarlierSearch(p, "golang")
    \/ \E p \in Procs, resp \in EarlierResponses : EarlierSearchFirstPage(p, resp)
    \/ \E p \in Procs : SearchTillMaxID(p)
    \/ \E p \in Procs, resp \in EarlierResponses : EarlierSearchNextPage(p, resp)
    \/ Tick

SpecEarlier == Init /\ [][NextEarlier]_vars

(***************************************************************************)
(* C17: in the earlier variant, a rate-limit error on a page after the     *)
(* first makes Search return the tweets accumulated so far together with   *)
(* the reset time the error carries.                                       *)
(***************************************************************************)
C17_ResetTimeReturned ==
    \A p \in Procs :
        (pc[p] = "done" /\ response[p].kind = "ratelimit" /\ Len(pages[p]) >= 2) =>
            /\ ~ret[p].isNil
            /\ ret[p].val.Tweets = Flatten(pages[p])
            /\ ret[p].val.RateLimitReset = response[p].rl.reset

(***************************************************************************)
(* C18: in the earlier variant, a non-empty next page that reports a reset *)
(* time still in the future ends the paging: Search returns the tweets     *)
(* accumulated together with that reset time and sends no further request. *)
(***************************************************************************)
C18_StopsOnFutureReset ==
    \A p \in Procs :
        ( /\ Len(pages[p]) >= 2
          /\ response[p].kind = "ok"
          /\ response[p].items # <<>>
          /\ response[p].hdr.has
          /\ Before(now, response[p].hdr.reset) ) =>
            /\ pc[p] = "done"
            /\ ret[p] = EarlierOk(EarlierResult(Flatten(pages[p]), response[p].hdr.reset))
            /\ Len(sent[p]) = Len(pages[p])

(***************************************************************************)
(* C19: every Search invocation returns, whatever finite set of items the  *)
(* service holds (identifier 0 included), when the service honours the     *)
(* window.  In the form a finite run refutes: the loop's only control      *)
(* state is minID, and a next-page request is determined by it, so an      *)
(* invocation that sends the same request twice is back in a state it was  *)
(* in before, and a service that answers equal requests with equal pages   *)
(* keeps it there for ever.  A Search that always returns never sends a    *)
(* request twice.                                                          *)
(***************************************************************************)
C19_Terminates ==
    \A p \in Procs : Distinct(sent[p])

====
